---------------------------- MODULE Spec2Model ----------------------------
(***************************************************************************)
(* Model of 0x00-personal_data/filtered_logger.py: the field redactor      *)
(* filter_datum, the log formatter RedactingFormatter, get_logger and the  *)
(* row loop of main.                                                       *)
(*                                                                         *)
(* A Python str is a sequence of one-character strings, so that            *)
(* concatenation, slicing and regular-expression matching are computed     *)
(* and not assumed.                                                        *)
(***************************************************************************)
EXTENDS Naturals, Sequences, FiniteSets

VARIABLES
    pc,         \* position of the caller
    fields,     \* filter_datum argument: list of field names
    redaction,  \* filter_datum argument: replacement token
    message,    \* filter_datum argument: the log line
    separator,  \* filter_datum argument: the separator character
    result,     \* outcome of the first filter_datum call
    again,      \* outcome of filter_datum applied to its own output
    other,      \* a rearrangement of fields (same names, other order/repeats)
    reordered,  \* outcome of filter_datum(other, ...)
    supplied,   \* the fields argument RedactingFormatter was constructed with
    formatter,  \* the RedactingFormatter object (self.fields)
    record,     \* the LogRecord handed to format
    line,       \* the string format returned last
    nformat,    \* number of format calls made
    logger,     \* the logger registered as "user_data"
    ncalls,     \* number of get_logger calls made
    log         \* the log calls made, each with the lines it wrote

filterVars == <<fields, redaction, message, separator, result, again, other,
                reordered>>
formatVars == <<supplied, formatter, record, line, nformat>>
loggerVars == <<logger, ncalls, log>>
vars == <<pc, filterVars, formatVars, loggerVars>>

---------------------------------------------------------------------------
(* Bounds of the model.                                                    *)

\* Longest message drawn for filter_datum.
MaxLen == 4
\* Longest list of field names drawn for filter_datum.
MaxFields == 2
\* Longest output that is passed to filter_datum a second time.
MaxOut == 40

---------------------------------------------------------------------------
(* Strings.                                                                *)

Strings(alphabet, n) == UNION {[1..k -> alphabet] : k \in 0..n}

Lists(names, n) == UNION {[1..k -> names] : k \in 0..n}

Range(s) == {s[k] : k \in 1..Len(s)}

\* message[i-1 : i-1+len(w)] == w  (i is 1-based)
StartsAt(msg, i, w) ==
    /\ i + Len(w) - 1 <= Len(msg)
    /\ SubSeq(msg, i, i + Len(w) - 1) = w

Occurs(w, msg) == \E i \in 1..Len(msg) : StartsAt(msg, i, w)

\* Characters of the messages: two letters (so that one field name can be a
\* prefix or a suffix of another), "=", ";" and the line feed, which "." of
\* a Python regular expression does not match; and "|", for the messages
\* given to filter_datum with that separator.
LineChars == {"a", "b", "=", ";", "\n"}
Chars == LineChars \cup {"|"}

FieldNames == {<<"a">>, <<"b">>, <<"a", "b">>}

Stars == <<"*", "*", "*">>

Tokens == {Stars, <<"*", ";">>}

\* A separator is one character, used by the code as a piece of a regular
\* expression: ";" stands for itself, "|" is the alternation operator and
\* "(" opens a group that the pattern never closes.
LiteralSeparators == {";"}
ErrorSeparators == {"("}
Separators == LiteralSeparators \cup {"|"} \cup ErrorSeparators

---------------------------------------------------------------------------
(* filter_datum: re.sub(field+'=.*?'+separator,                            *)
(*                      field+'='+redaction+separator, message)            *)

Return(s) == [raised |-> FALSE, value |-> s]
Raised == [raised |-> TRUE, value |-> <<>>]

\* The pattern's literal start, field+'='.
Key(field) == field \o <<"=">>

\* The replacement string, field+'='+redaction+separator (and, for
\* comparison, redaction+separator alone).
ReplacementTokenOnly(field, token, sep) == token \o <<sep>>
Replacement(field, token, sep) == Key(field) \o token \o <<sep>>

Min(S) == CHOOSE x \in S : \A y \in S : x <= y
Max(S) == CHOOSE x \in S : \A y \in S : x >= y

\* '.*?' + separator from position j on: the lazy run of "." stops at the
\* first separator; "." does not match a line feed, so a line feed met
\* before any separator ends the attempt.  The separator's position, 0 when
\* there is no match.
LazyUpTo(msg, j, sep) ==
    LET stops == {k \in j..Len(msg) : msg[k] = sep \/ msg[k] = "\n"}
    IN  IF stops = {} THEN 0
        ELSE IF msg[Min(stops)] = sep THEN Min(stops) ELSE 0

\* The greedy run '.*' + separator: the last separator before the end of
\* the line.
GreedyUpTo(msg, j, sep) ==
    LET feeds == {k \in j..Len(msg) : msg[k] = "\n"}
        last == IF feeds = {} THEN Len(msg) ELSE Min(feeds) - 1
        seps == {k \in j..last : msg[k] = sep}
    IN  IF seps = {} THEN 0 ELSE Max(seps)

\* Position of the separator that ends the match starting at i, 0 if the
\* pattern does not match at i (separator taken literally).
MatchEndGreedy(msg, i, field, sep) ==
    IF StartsAt(msg, i, Key(field))
    THEN GreedyUpTo(msg, i + Len(field) + 1, sep)
    ELSE 0
MatchEnd(msg, i, field, sep) ==
    IF StartsAt(msg, i, Key(field))
    THEN LazyUpTo(msg, i + Len(field) + 1, sep)
    ELSE 0

\* re.sub for a literal separator, from position i on: the text up to the
\* leftmost match is copied, the match is replaced, and the search goes on
\* after the match.
RECURSIVE SubLiteral(_, _, _, _, _)
SubLiteral(msg, i, field, token, sep) ==
    LET starts == {p \in i..Len(msg) : MatchEnd(msg, p, field, sep) # 0}
    IN  IF starts = {} THEN SubSeq(msg, i, Len(msg))
        ELSE LET p == Min(starts)
             IN  SubSeq(msg, i, p - 1)
                     \o Replacement(field, token, sep)
                     \o SubLiteral(msg, MatchEnd(msg, p, field, sep) + 1,
                                   field, token, sep)

\* repl before every character of s.
Interleave(repl, s) ==
    [n \in 1..(Len(s) * (Len(repl) + 1)) |->
        IF (n - 1) % (Len(repl) + 1) < Len(repl)
        THEN repl[((n - 1) % (Len(repl) + 1)) + 1]
        ELSE s[((n - 1) \div (Len(repl) + 1)) + 1]]

\* re.sub for the separator "|": the pattern is  field=.*?  OR  empty.
\* Where field= starts, the first branch matches field= alone (the lazy run
\* takes nothing); at every other position, the end of the message
\* included, the empty branch matches.  Every match is replaced, the empty
\* ones too, so the replacement also lands before every character that no
\* match consumed and at the end.
RECURSIVE SubAlternation(_, _, _, _, _)
SubAlternation(msg, i, field, token, sep) ==
    LET starts == {p \in i..Len(msg) : StartsAt(msg, p, Key(field))}
        repl == Replacement(field, token, sep)
    IN  IF starts = {}
        THEN Interleave(repl, SubSeq(msg, i, Len(msg))) \o repl
        ELSE LET p == Min(starts)
             IN  Interleave(repl, SubSeq(msg, i, p - 1)) \o repl
                     \o SubAlternation(msg, p + Len(field) + 1, field,
                                       token, sep)

\* One pass of the loop body; re.compile raises re.error for "(".
re_sub(field, token, msg, sep) ==
    CASE sep \in LiteralSeparators ->
             Return(SubLiteral(msg, 1, field, token, sep))
      [] sep = "|" -> Return(SubAlternation(msg, 1, field, token, sep))
      [] sep \in ErrorSeparators -> Raised

\* for field in fields: message = re.sub(...); return message
RECURSIVE filter_datum(_, _, _, _)
filter_datum(flds, token, msg, sep) ==
    IF flds = <<>> THEN Return(msg)
    ELSE LET r == re_sub(Head(flds), token, msg, sep)
         IN  IF r.raised THEN Raised
             ELSE filter_datum(Tail(flds), token, r.value, sep)

---------------------------------------------------------------------------
(* Calls of filter_datum on drawn arguments.                               *)

Idle == Return(<<>>)

\* The variables of the formatter and of the logger while they are not
\* part of the run.
FormatIdle ==
    /\ supplied = <<>>
    /\ formatter = [fields |-> <<>>]
    /\ record = <<>>
    /\ line = <<>>
    /\ nformat = 0
LoggerIdle ==
    /\ logger = <<>>
    /\ ncalls = 0
    /\ log = <<>>
FilterIdle ==
    /\ fields = <<>>
    /\ redaction = <<>>
    /\ message = <<>>
    /\ separator = ";"
    /\ result = Idle
    /\ again = Idle
    /\ other = <<>>
    /\ reordered = Idle

\* Every argument tuple of the model.
InitFilter ==
    /\ pc = "ready"
    /\ fields \in Lists(FieldNames, MaxFields)
    /\ redaction \in Tokens
    /\ message \in Strings(Chars, MaxLen)
    /\ separator \in Separators
    /\ result = Idle
    /\ again = Idle
    /\ other = <<>>
    /\ reordered = Idle
    /\ FormatIdle
    /\ LoggerIdle

\* result = filter_datum(fields, redaction, message, separator)
FilterDatum ==
    /\ pc = "ready"
    /\ result' = filter_datum(fields, redaction, message, separator)
    /\ pc' = "returned"
    /\ UNCHANGED <<fields, redaction, message, separator, again, other,
                   reordered, formatVars, loggerVars>>

\* again = filter_datum(fields, redaction, result, separator)
FilterAgain ==
    /\ pc = "returned"
    /\ ~result.raised
    /\ Len(result.value) <= MaxOut
    /\ again' = filter_datum(fields, redaction, result.value, separator)
    /\ pc' = "twice"
    /\ UNCHANGED <<fields, redaction, message, separator, result, other,
                   reordered, formatVars, loggerVars>>

\* reordered = filter_datum(other, ...): other lists the same names as
\* fields, in any order, with at most one repeated entry.
FilterReordered ==
    /\ pc = "returned"
    /\ \E o \in Lists(Range(fields), Len(fields) + 1) :
          /\ Range(o) = Range(fields)
          /\ other' = o
          /\ reordered' = filter_datum(o, redaction, message, separator)
    /\ pc' = "reordered"
    /\ UNCHANGED <<fields, redaction, message, separator, result, again,
                   formatVars, loggerVars>>

NextFilter == FilterDatum \/ FilterAgain

Spec == InitFilter /\ [][NextFilter]_vars

\* Every list of distinct names.
Arrangements(names) ==
    {l \in Lists(names, Cardinality(names)) :
        \A k, m \in 1..Len(l) : k # m => l[k] # l[m]}

\* The formatter's own arguments: token "***", separator ";".
InitOrder ==
    /\ pc = "ready"
    /\ fields \in Arrangements(FieldNames)
    /\ redaction = Stars
    /\ message \in Strings(LineChars, MaxLen)
    /\ separator = ";"
    /\ result = Idle
    /\ again = Idle
    /\ other = <<>>
    /\ reordered = Idle
    /\ FormatIdle
    /\ LoggerIdle

NextOrder == FilterDatum \/ FilterReordered

SpecOrder == InitOrder /\ [][NextOrder]_vars

---------------------------------------------------------------------------
(* What the contract of the redactor says the output is.                   *)

NoLineFeed(s) == \A k \in 1..Len(s) : s[k] # "\n"

HasAt(msg, c, j) == \E k \in j..Len(msg) : msg[k] = c

\* Position of the first c at or after j (there is one).
FirstAt(msg, c, j) ==
    CHOOSE k \in j..Len(msg) :
        msg[k] = c /\ \A l \in j..(k - 1) : msg[l] # c

\* The message read left to right: wherever field= starts, for a field of
\* flds, and a separator follows, the text up to the first such separator
\* reads token; everything else is copied.
RECURSIVE Redacted(_, _, _, _, _)
Redacted(flds, token, msg, i, sep) ==
    IF i > Len(msg) THEN <<>>
    ELSE LET hits == {f \in Range(flds) :
                         /\ StartsAt(msg, i, Key(f))
                         /\ HasAt(msg, sep, i + Len(f) + 1)}
         IN  IF hits # {}
             THEN LET f == CHOOSE h \in hits : TRUE
                      j == FirstAt(msg, sep, i + Len(f) + 1)
                  IN  Key(f) \o token \o <<sep>>
                          \o Redacted(flds, token, msg, j + 1, sep)
             ELSE <<msg[i]>> \o Redacted(flds, token, msg, i + 1, sep)

Letters == {"a", "b"}

\* The message read as key=value pairs, each ended by the separator: ok
\* says whether it is such a message, text is the message with the value of
\* every pair whose key is a member of flds replaced by token.
RECURSIVE RedactedPairs(_, _, _, _, _)
RedactedPairs(flds, token, msg, i, sep) ==
    IF i > Len(msg) THEN [ok |-> TRUE, text |-> <<>>]
    ELSE IF ~HasAt(msg, sep, i) THEN [ok |-> FALSE, text |-> <<>>]
    ELSE LET j == FirstAt(msg, sep, i)
             pair == SubSeq(msg, i, j - 1)
         IN  IF ~HasAt(pair, "=", 1) THEN [ok |-> FALSE, text |-> <<>>]
             ELSE LET e == FirstAt(pair, "=", 1)
                      key == SubSeq(pair, 1, e - 1)
                      value == SubSeq(pair, e + 1, Len(pair))
                      rest == RedactedPairs(flds, token, msg, j + 1, sep)
                  IN  [ok |-> /\ rest.ok
                              /\ key # <<>>
                              /\ Range(key) \subseteq Letters,
                       text |-> Key(key)
                                   \o (IF key \in Range(flds)
                                       THEN token ELSE value)
                                   \o <<sep>> \o rest.text]

\* The message up to and including its last separator, and what follows it.
LastSep(msg, sep) ==
    IF HasAt(msg, sep, 1)
    THEN CHOOSE k \in 1..Len(msg) :
             msg[k] = sep /\ \A l \in (k + 1)..Len(msg) : msg[l] # sep
    ELSE 0
Terminated(msg, sep) == SubSeq(msg, 1, LastSep(msg, sep))
Unterminated(msg, sep) == SubSeq(msg, LastSep(msg, sep) + 1, Len(msg))

---------------------------------------------------------------------------
(* Claims about filter_datum.                                              *)

\* C1: for every field of fields and every field= of the message that a
\* separator follows, the output reads token between that field= and the
\* first separator after it, whatever the value holds other than the
\* separator, and all other text is the input's.
\* Stated for a single-line message in which some field= is followed by
\* the separator, and for the token "***".
TerminatedField(flds, msg, sep) ==
    \E k \in 1..Len(flds), i \in 1..Len(msg) :
        /\ StartsAt(msg, i, Key(flds[k]))
        /\ HasAt(msg, sep, i + Len(flds[k]) + 1)

C1_ValueReplacedUpToNextSeparator ==
    (/\ pc = "returned"
     /\ redaction = Stars
     /\ NoLineFeed(message)
     /\ TerminatedField(fields, message, separator)) =>
        result = Return(Redacted(fields, redaction, message, 1, separator))

\* C1 once more, for the separator ";" and any message: a value may hold
\* any character but the separator.
C1_AnyValueCharacter ==
    (/\ pc = "returned"
     /\ redaction = Stars
     /\ separator = ";"
     /\ TerminatedField(fields, message, separator)) =>
        result = Return(Redacted(fields, redaction, message, 1, separator))

\* What holds of C1: the same with the token "***", the separator ";" and
\* a message without line feed.
FilterIsScanOnOneLine ==
    (pc = "returned" /\ redaction = Stars
        /\ separator \in LiteralSeparators /\ NoLineFeed(message)) =>
        result = Return(Redacted(fields, redaction, message, 1, separator))

\* C2: in a message made of key=value pairs, each ended by the separator,
\* the value of a pair is replaced if and only if the pair's key is a
\* member of fields.  Stated for the token "***", the separator ";" and
\* single-line messages, where the other defects of filter_datum play no part.
C2_MembershipDecidesRedaction ==
    (/\ pc = "returned"
     /\ redaction = Stars
     /\ separator \in LiteralSeparators
     /\ NoLineFeed(message)
     /\ RedactedPairs(fields, redaction, message, 1, separator).ok) =>
        result = Return(RedactedPairs(fields, redaction, message, 1,
                                      separator).text)

\* C3: filter_datum never fails, and what follows the last separator of the
\* message is returned as it was, after the output for the terminated part.
\* Stated for a message in which a field= comes after the last separator.
UnterminatedField(flds, msg, sep) ==
    \E k \in 1..Len(flds) : Occurs(Key(flds[k]), Unterminated(msg, sep))

C3_UnterminatedTailKept ==
    (pc = "returned" /\ UnterminatedField(fields, message, separator)) =>
        /\ ~result.raised
        /\ result.value =
               filter_datum(fields, redaction,
                            Terminated(message, separator), separator).value
                   \o Unterminated(message, separator)

\* What holds of C3: the same with the separator ";".
TailKeptLiteral ==
    (pc = "returned" /\ separator \in LiteralSeparators) =>
        /\ ~result.raised
        /\ result.value =
               filter_datum(fields, redaction,
                            Terminated(message, separator), separator).value
                   \o Unterminated(message, separator)

\* C4: a message in which no field of fields occurs is returned unchanged
\* and without error; so is every message when fields is empty.
C4_NoFieldNoChange ==
    (pc = "returned"
        /\ \A k \in 1..Len(fields) : ~Occurs(fields[k], message)) =>
        result = Return(message)

\* What holds of C4: the same with the separator ";", and for every
\* separator when fields is empty.
NoFieldNoChangeLiteral ==
    (/\ pc = "returned"
     /\ \A k \in 1..Len(fields) : ~Occurs(fields[k], message)
     /\ (separator \in LiteralSeparators \/ fields = <<>>)) =>
        result = Return(message)

\* C5: filter_datum applied to its own output returns that output.  Stated
\* for the token "***".
C5_Idempotent ==
    (pc = "twice" /\ redaction = Stars) => again = result

\* What holds of C5: idempotence with token "***" and separator ";".
IdempotentLiteral ==
    (pc = "twice" /\ redaction = Stars /\ separator \in LiteralSeparators)
        => again = result

\* C10: with token "***" and separator ";" the output is the same for every
\* order of the field names and with an entry repeated, also when one name
\* is a prefix or a suffix of another.
C10_OrderIndependent ==
    pc = "reordered" => reordered = result

\* C10's case: two names, one ending the other, the longer one in the
\* message, a different order, and a value replaced.
C10_Witness ==
    /\ pc = "reordered"
    /\ other # fields
    /\ \E k, l \in 1..Len(fields) :
          /\ fields[k] # fields[l]
          /\ Occurs(Key(fields[k]), Key(fields[l]))
          /\ Occurs(Key(fields[l]), message)
    /\ result.value # message
    /\ reordered = result

---------------------------------------------------------------------------
(* RedactingFormatter.                                                     *)

PII_FIELDS == << <<"n", "a", "m", "e">>,
                 <<"e", "m", "a", "i", "l">>,
                 <<"p", "h", "o", "n", "e">>,
                 <<"s", "s", "n">>,
                 <<"p", "a", "s", "s", "w", "o", "r", "d">> >>

REDACTION == Stars
SEPARATOR == ";"

\* Minimum width of %(asctime)-15s.
AscTimeWidth == 15

\* %-Ns: the string, then spaces up to the width.
LeftJustify(s, width) ==
    s \o [k \in 1..(IF Len(s) < width THEN width - Len(s) ELSE 0) |-> " "]

\* An attribute a LogRecord does not have yet.
Unset == <<"(unset)">>

\* logging.Formatter.formatTime for the default date format: the record's
\* creation time, a whole number of seconds below ten on 1970-01-01 (UTC),
\* as "1970-01-01 00:00:0s,000".
Digit(n) == <<"0", "1", "2", "3", "4", "5", "6", "7", "8", "9">>[n + 1]
formatTime(created) ==
    <<"1", "9", "7", "0", "-", "0", "1", "-", "0", "1", " ",
      "0", "0", ":", "0", "0", ":", "0", Digit(created), ",", "0", "0", "0">>

\* "[HOLBERTON] %(name)s %(levelname)s %(asctime)-15s: " % record
Prefix(rec) ==
    <<"[", "H", "O", "L", "B", "E", "R", "T", "O", "N", "]", " ">>
        \o rec.name \o <<" ">> \o rec.levelname \o <<" ">>
        \o LeftJustify(formatTime(rec.created), AscTimeWidth) \o <<":", " ">>

\* FORMAT % record, with message = record.getMessage() (no arguments).
FORMAT(rec) == Prefix(rec) \o rec.msg

\* RedactingFormatter(fields): the object after __init__.
RedactingFormatter(flds) == [fields |-> flds]

\* The record as logging.Formatter.format leaves it: the rendered message
\* and time are stored on it.
RecordOverwritten(self, rec) ==
    [rec EXCEPT !.message = rec.msg,
                !.asctime = formatTime(rec.created),
                !.msg = filter_datum(self.fields, REDACTION, rec.msg,
                                     SEPARATOR).value]
RecordFormatted(self, rec) ==
    [rec EXCEPT !.message = rec.msg,
                !.asctime = formatTime(rec.created)]

\* message = super().format(record); return filter_datum(self.fields,
\* self.REDACTION, message, self.SEPARATOR)
format(self, rec) ==
    filter_datum(self.fields, REDACTION, FORMAT(rec), SEPARATOR).value

\* Longest message body, in key=value pairs.
MaxPairs == 2
\* Most format calls on one record.
MaxFormats == 2

Email == <<"e", "m", "a", "i", "l">>
Ssn == <<"s", "s", "n">>

\* One key=value pair, ended or not by ";".
BodyPairs ==
    {Key(k) \o v \o t :
        k \in {Email, <<"i", "d">>},
        v \in {<<"1">>, <<"a", "\n", "b">>},
        t \in {<<";">>, <<>>}}

RECURSIVE Bodies(_)
Bodies(n) ==
    IF n = 0 THEN {<<>>}
    ELSE LET shorter == Bodies(n - 1)
         IN  shorter \cup {b \o q : b \in shorter, q \in BodyPairs}

LoggerNames == {<<"u", "s", "e", "r", "_", "d", "a", "t", "a">>,
                <<"s", "s", "n", "=">>}
LevelNames == {<<"I", "N", "F", "O">>, <<"E", "R", "R", "O", "R">>}
Instants == {0, 1}

\* A formatter constructed with a field list and a fresh record.
InitFormat ==
    /\ pc = "created"
    /\ supplied \in {PII_FIELDS, <<Email>>}
    /\ formatter = RedactingFormatter(supplied)
    /\ \E n \in LoggerNames, l \in LevelNames, b \in Bodies(MaxPairs),
          t \in Instants :
          record = [name |-> n, levelname |-> l, msg |-> b, created |-> t,
                    message |-> Unset, asctime |-> Unset]
    /\ line = <<>>
    /\ nformat = 0
    /\ FilterIdle
    /\ LoggerIdle

\* line = formatter.format(record)
Format ==
    /\ pc \in {"created", "formatted"}
    /\ nformat < MaxFormats
    /\ line' = format(formatter, record)
    /\ record' = RecordFormatted(formatter, record)
    /\ nformat' = nformat + 1
    /\ pc' = "formatted"
    /\ UNCHANGED <<supplied, formatter, filterVars, loggerVars>>

NextFormat == Format

SpecFormat == InitFormat /\ [][NextFormat]_vars

NoFieldIn(flds, s) == \A k \in 1..Len(flds) : ~Occurs(Key(flds[k]), s)

\* C6: the returned line is the template prefix, rendered intact, followed
\* by the message body in which every field=value; of a configured field
\* reads field=***;.
C6_PrefixThenRedactedBody ==
    pc = "formatted" =>
        line = Prefix(record)
                   \o Redacted(formatter.fields, Stars, record.msg, 1, ";")

\* C6 as amended: the same for a logger name and a level name that hold no
\* field= of a configured field and a message body without line feed.
C6_Amended ==
    (/\ pc = "formatted"
     /\ NoFieldIn(formatter.fields, Prefix(record))
     /\ NoLineFeed(record.msg)) =>
        line = Prefix(record)
                   \o Redacted(formatter.fields, Stars, record.msg, 1, ";")

\* C6's case: logger "user_data", level INFO, a body holding email=1;
\* which the line shows as email=***; after the intact prefix.
C6_Witness ==
    /\ pc = "formatted"
    /\ record.name = <<"u", "s", "e", "r", "_", "d", "a", "t", "a">>
    /\ record.levelname = <<"I", "N", "F", "O">>
    /\ NoLineFeed(record.msg)
    /\ Occurs(Key(Email) \o <<"1", ";">>, record.msg)
    /\ Occurs(Key(Email) \o Stars \o <<";">>, line)
    /\ ~Occurs(Key(Email) \o <<"1", ";">>, line)
    /\ StartsAt(line, 1, Prefix(record))

\* C8: no format call changes the record or the formatter's configuration.
C8_FormatChangesNothing ==
    [][pc' = "formatted" => (record' = record /\ formatter' = formatter)]_vars

\* C8 as amended: a format call leaves the record's name, level, msg and
\* creation time and the formatter's fields as they were, and redacts with
\* the fields supplied at construction; it stores the rendered message and
\* time on the record.
C8_Amended ==
    [][pc' = "formatted" =>
          /\ record'.name = record.name
          /\ record'.levelname = record.levelname
          /\ record'.msg = record.msg
          /\ record'.created = record.created
          /\ record'.message = record.msg
          /\ record'.asctime = formatTime(record.created)
          /\ formatter' = formatter
          /\ formatter.fields = supplied
          /\ line' = filter_datum(supplied, Stars, FORMAT(record), ";").value
      ]_vars

\* C8's case: the second format call on a record, with a value redacted.
C8_Witness ==
    /\ pc = "formatted"
    /\ nformat = MaxFormats
    /\ record.message = record.msg
    /\ line # FORMAT(record)

---------------------------------------------------------------------------
(* get_logger, the logger "user_data" and the row loop of main.            *)

\* logging.INFO
INFO == 20

\* logging.getLevelName for the standard levels.
getLevelName(levelno) ==
    CASE levelno = 10 -> <<"D", "E", "B", "U", "G">>
      [] levelno = 20 -> <<"I", "N", "F", "O">>
      [] levelno = 30 -> <<"W", "A", "R", "N", "I", "N", "G">>
      [] levelno = 40 -> <<"E", "R", "R", "O", "R">>

UserData == <<"u", "s", "e", "r", "_", "d", "a", "t", "a">>

\* logging.getLogger("user_data") in a fresh process: level NOTSET, records
\* passed on to the root logger, no handler.
FreshLogger == [level |-> 0, propagate |-> TRUE, handlers |-> <<>>]

\* The logger after get_logger(): each call adds one more StreamHandler
\* with its own RedactingFormatter(PII_FIELDS).
get_logger(lg) ==
    [level |-> INFO, propagate |-> FALSE,
     handlers |-> Append(lg.handlers, RedactingFormatter(PII_FIELDS))]

\* Logger.getEffectiveLevel: the logger's level, the root's WARNING when
\* the logger's is NOTSET.
getEffectiveLevel(lg) == IF lg.level # 0 THEN lg.level ELSE 30

\* Logger.log(levelno, msg) at time created: the lines the handlers write
\* to the stream, in order, and whether the record goes on to the root.
LogCall(lg, levelno, msg, created, row) ==
    LET rec == [name |-> UserData, levelname |-> getLevelName(levelno),
                msg |-> msg, created |-> created,
                message |-> Unset, asctime |-> Unset]
        enabled == levelno >= getEffectiveLevel(lg)
    IN  [levelno |-> levelno, msg |-> msg, created |-> created, row |-> row,
         lines |-> IF enabled
                   THEN [h \in 1..Len(lg.handlers) |->
                            format(lg.handlers[h], rec)]
                   ELSE <<>>,
         propagated |-> enabled /\ lg.propagate]

\* str.strip(): white space removed at both ends.
WhiteSpace == {" ", "\n"}
RECURSIVE LStrip(_)
LStrip(s) ==
    IF s # <<>> /\ s[1] \in WhiteSpace THEN LStrip(Tail(s)) ELSE s
RECURSIVE RStrip(_)
RStrip(s) ==
    IF s # <<>> /\ s[Len(s)] \in WhiteSpace
    THEN RStrip(SubSeq(s, 1, Len(s) - 1)) ELSE s
Strip(s) == RStrip(LStrip(s))

\* "; ".join("{}={}".format(k, v) ...): no separator after the last pair.
RECURSIVE RowMessageJoined(_, _)
RowMessageJoined(cols, row) ==
    IF cols = <<>> THEN <<>>
    ELSE Key(Head(cols)) \o Head(row)
             \o (IF Len(cols) > 1 THEN <<";", " ">> ELSE <<>>)
             \o RowMessageJoined(Tail(cols), Tail(row))
\* "".join("{}={}; ".format(k, v) for k, v in zip(fields, row))
RECURSIVE RowMessage(_, _)
RowMessage(cols, row) ==
    IF cols = <<>> THEN <<>>
    ELSE Key(Head(cols)) \o Head(row) \o <<";", " ">>
             \o RowMessage(Tail(cols), Tail(row))

\* Most get_logger calls, and most log calls, in one process.
MaxCalls == 2
MaxLogs == 2

\* The table: cursor.column_names and the rows, as the strings that
\* "{}".format gives; no value holds ";".
Columns == << <<"n", "a", "m", "e">>, <<"i", "p">>, <<"s", "s", "n">> >>
Rows ==
    {<<n, i, t>> :
        n \in {<<"1">>, <<"2">>, <<"1", "\n">>},
        i \in {<<"1">>, <<"2">>},
        t \in {<<"1">>, <<"2">>}}
NoRow == <<>>

InitLogger ==
    /\ pc \in {"idle", "main"}
    /\ logger = FreshLogger
    /\ ncalls = 0
    /\ log = <<>>
    /\ FilterIdle
    /\ FormatIdle

\* logger = get_logger()
GetLogger ==
    /\ pc = "idle"
    /\ ncalls < MaxCalls
    /\ logger' = get_logger(logger)
    /\ ncalls' = ncalls + 1
    /\ UNCHANGED <<pc, log, filterVars, formatVars>>

\* A log call on the logger that get_logger returned.
Log ==
    /\ pc = "idle"
    /\ ncalls >= 1
    /\ Len(log) < MaxLogs
    /\ \E levelno \in {10, INFO, 40}, t \in Instants,
          msg \in {Key(Email) \o <<"1", ";">>, Key(Email) \o <<"1">>} :
          log' = Append(log, LogCall(logger, levelno, msg, t, NoRow))
    /\ UNCHANGED <<pc, logger, ncalls, filterVars, formatVars>>

\* main(): db = get_db(); logger = get_logger(); the query is run.
MainStart ==
    /\ pc = "main"
    /\ logger' = get_logger(logger)
    /\ ncalls' = ncalls + 1
    /\ pc' = "rows"
    /\ UNCHANGED <<log, filterVars, formatVars>>

\* One turn of "for row in cursor": logger.info(message.strip())
MainRow ==
    /\ pc = "rows"
    /\ Len(log) < MaxLogs
    /\ \E row \in Rows, t \in Instants :
          log' = Append(log, LogCall(logger, INFO,
                                     Strip(RowMessage(Columns, row)), t, row))
    /\ UNCHANGED <<pc, logger, ncalls, filterVars, formatVars>>

\* The cursor is exhausted: cursor.close(); db.close()
MainEnd ==
    /\ pc = "rows"
    /\ pc' = "done"
    /\ UNCHANGED <<logger, ncalls, log, filterVars, formatVars>>

\* A process that calls get_logger and logs.
NextLogger == GetLogger \/ Log

InitIdle == InitLogger /\ pc = "idle"

SpecLogger == InitIdle /\ [][NextLogger]_vars

\* A process that runs main.
NextMain == MainStart \/ MainRow \/ MainEnd

InitMain == InitLogger /\ pc = "main"

SpecMain == InitMain /\ [][NextMain]_vars

\* C7: after any number of get_logger calls, every log call at INFO or
\* above writes its line exactly once and passes nothing to the root.
C7_OneLinePerLogCall ==
    \A k \in 1..Len(log) :
        log[k].levelno >= INFO =>
            Len(log[k].lines) = 1 /\ ~log[k].propagated

\* What holds of C7: one line per log call while get_logger has been
\* called once, none below INFO, and never anything passed to the root.
OneLineAfterOneCall ==
    \A k \in 1..Len(log) :
        /\ ~log[k].propagated
        /\ (log[k].levelno >= INFO /\ ncalls = 1) => Len(log[k].lines) = 1
        /\ log[k].levelno < INFO => log[k].lines = <<>>

PiiColumns == {c \in 1..Len(Columns) : Columns[c] \in Range(PII_FIELDS)}

SameButPii(r1, r2) ==
    \A c \in 1..Len(Columns) : c \notin PiiColumns => r1[c] = r2[c]

OneLine(row) == \A c \in 1..Len(row) : NoLineFeed(row[c])

ShowsStars(ln) ==
    \A c \in PiiColumns : Occurs(Key(Columns[c]) \o Stars \o <<";">>, ln)

\* C9: the line logged for a row does not depend on the values of the PII
\* columns: two rows that differ only there give the same line (same
\* time), and every PII column shows as column=***;, the last one too.
C9_LoggedLineHidesPii ==
    \A k, l \in 1..Len(log) :
        (/\ log[k].row # NoRow /\ log[l].row # NoRow
         /\ log[k].created = log[l].created
         /\ SameButPii(log[k].row, log[l].row)) =>
            /\ log[k].lines = log[l].lines
            /\ \A h \in 1..Len(log[k].lines) : ShowsStars(log[k].lines[h])

\* C9 as amended: the same for rows whose values hold no line feed either.
C9_Amended ==
    \A k, l \in 1..Len(log) :
        (/\ log[k].row # NoRow /\ log[l].row # NoRow
         /\ log[k].created = log[l].created
         /\ SameButPii(log[k].row, log[l].row)
         /\ OneLine(log[k].row) /\ OneLine(log[l].row)) =>
            /\ log[k].lines = log[l].lines
            /\ \A h \in 1..Len(log[k].lines) : ShowsStars(log[k].lines[h])

\* C9's case: two rows logged by main at the same time that differ in the
\* first and in the last column, both PII, and gave the same line.
C9_Witness ==
    \E k, l \in 1..Len(log) :
        /\ log[k].row # NoRow /\ log[l].row # NoRow
        /\ log[k].created = log[l].created
        /\ OneLine(log[k].row) /\ OneLine(log[l].row)
        /\ log[k].row[2] = log[l].row[2]
        /\ log[k].row[1] # log[l].row[1]
        /\ log[k].row[3] # log[l].row[3]
        /\ log[k].lines # <<>>
        /\ log[k].lines = log[l].lines
        /\ ShowsStars(log[k].lines[1])

====
